---- MODULE Spec2Model ----
(***************************************************************************)
(* Model of the RRC client syncing server: the POST /api/sync handler in  *)
(* its four source variants, the pg connection pool it checks clients out *)
(* of, and the PostgreSQL sessions its statements run in.                 *)
(*                                                                         *)
(*   variant "narrow"   src/server.js              DELETE, trimmed values  *)
(*   variant "wide"     src/unnamed/part_000:1-220 DELETE, 20 columns      *)
(*   variant "truncopt" src/unnamed/part_000:222-357 optional TRUNCATE     *)
(*   variant "fixed"    src/unnamed/part_001       TRUNCATE rrc_clients    *)
(*                                                                         *)
(* A handler step is what JavaScript runs between two awaits: the step    *)
(* that resolves one await runs the code up to the next one.              *)
(*                                                                         *)
(* Spec is the handler with the pool and the store.  BuildSpec is the     *)
(* body of the batch loop alone, from a chunk to the placeholders and the *)
(* values of its INSERT, on records chosen field by field.                *)
(***************************************************************************)
EXTENDS Integers, Sequences, FiniteSets, TLC

VARIABLES
    variant,      \* which source variant is deployed
    secret,       \* process.env.API_KEY
    pc,           \* per request: the await the handler is suspended at
    body,         \* per request: req.body
    targetTable,  \* per request: const targetTable
    idx,          \* per request: loop variable i
    inserted,     \* per request: let inserted
    err,          \* per request: the err caught by the catch block
    client,       \* per request: the pool client checked out (0: none)
    resp,         \* per request: the responses sent, in order
    log,          \* per request: the statements issued on its client, in order
    stage,        \* per request: the handler sections entered, in order
    releases,     \* per request: number of client.release() calls
    conn,         \* per pool client: who holds it and its session's transaction
    table,        \* per table: the committed rows
    overlapped,   \* history: a COMMIT succeeded while another request's
                  \* transaction on the same table was open
    build         \* the statement builder alone: its chunk and what it built

vars == <<variant, secret, pc, body, targetTable, idx,
          inserted, err, client, resp, log, stage, releases, conn, table,
          overlapped, build>>

reqVars == <<pc, body, targetTable, idx, inserted, err, client, resp, log,
             stage, releases>>

cfgVars == <<variant, secret>>

----------------------------------------------------------------------------
(* Bounds *)

\* longest data array a request carries
MaxRecs == 2
\* the narrow variants' chunkSize of 500 and the wide variant's 100, scaled
NarrowChunk == 1
WideChunk == 1

\* the requests of a run, numbered in their order of arrival
Reqs == {1, 2}

\* the pool's clients: one per request, so acquisition never waits for a
\* release (the source configures max: 20, or leaves pg's default of 10)
Conns == {1, 2}

Min(a, b) == IF a < b THEN a ELSE b

----------------------------------------------------------------------------
(* JavaScript values.  Strings are sequences of one-character strings, so *)
(* that trimming and the identifier test work character by character.     *)

Undef == [t |-> "undefined"]
Null == [t |-> "null"]
Str(s) == [t |-> "string", s |-> s]
Bool(b) == [t |-> "boolean", b |-> b]
\* a finite number is n * 10^(-e), with e = 0 or n not a multiple of 10
Fin(n, e) == [t |-> "number", k |-> "finite", n |-> n, e |-> e]
Num(n) == Fin(n, 0)
NaN == [t |-> "number", k |-> "NaN", n |-> 0, e |-> 0]
Infinity(sign) == [t |-> "number", k |-> "Infinity", n |-> sign, e |-> 0]

Lower == {"a","b","c","d","e","f","g","h","i","j","k","l","m",
          "n","o","p","q","r","s","t","u","v","w","x","y","z"}
Upper == {"A","B","C","D","E","F","G","H","I","J","K","L","M",
          "N","O","P","Q","R","S","T","U","V","W","X","Y","Z"}
Digit == {"0","1","2","3","4","5","6","7","8","9"}
WhiteSpace == {" ", "\t", "\n"}

\* String.prototype.trim
RECURSIVE TrimLeft(_)
TrimLeft(s) ==
    IF s # <<>> /\ Head(s) \in WhiteSpace THEN TrimLeft(Tail(s)) ELSE s

RECURSIVE TrimRight(_)
TrimRight(s) ==
    IF s # <<>> /\ s[Len(s)] \in WhiteSpace
    THEN TrimRight(SubSeq(s, 1, Len(s) - 1)) ELSE s

Trim(s) == TrimRight(TrimLeft(s))

DigitChar(d) ==
    CASE d = 0 -> "0" [] d = 1 -> "1" [] d = 2 -> "2" [] d = 3 -> "3"
      [] d = 4 -> "4" [] d = 5 -> "5" [] d = 6 -> "6" [] d = 7 -> "7"
      [] d = 8 -> "8" [] d = 9 -> "9"

DigitVal(c) ==
    CASE c = "0" -> 0 [] c = "1" -> 1 [] c = "2" -> 2 [] c = "3" -> 3
      [] c = "4" -> 4 [] c = "5" -> 5 [] c = "6" -> 6 [] c = "7" -> 7
      [] c = "8" -> 8 [] c = "9" -> 9

RECURSIVE NatToString(_)
NatToString(n) ==
    IF n < 10 THEN <<DigitChar(n)>>
    ELSE NatToString(n \div 10) \o <<DigitChar(n % 10)>>

RECURSIVE Pow10(_)
Pow10(k) == IF k = 0 THEN 1 ELSE 10 * Pow10(k - 1)

RECURSIVE ZeroPad(_, _)
ZeroPad(s, k) == IF Len(s) >= k THEN s ELSE ZeroPad(<<"0">> \o s, k)

\* Number.prototype.toString of a finite number in decimal notation
FinToString(v) ==
    LET m == IF v.n < 0 THEN -v.n ELSE v.n
        sign == IF v.n < 0 THEN <<"-">> ELSE <<>>
    IN  IF v.e = 0 THEN sign \o NatToString(m)
        ELSE sign \o NatToString(m \div Pow10(v.e)) \o <<".">>
                  \o ZeroPad(NatToString(m % Pow10(v.e)), v.e)

\* value.toString() of a string, number or boolean
JsToString(v) ==
    CASE v.t = "string" -> v.s
      [] v.t = "boolean" ->
            IF v.b THEN <<"t","r","u","e">> ELSE <<"f","a","l","s","e">>
      [] v.t = "number" /\ v.k = "finite" -> FinToString(v)
      [] v.t = "number" /\ v.k = "NaN" -> <<"N","a","N">>
      [] v.t = "number" /\ v.k = "Infinity" ->
            (IF v.n < 0 THEN <<"-">> ELSE <<>>)
                \o <<"I","n","f","i","n","i","t","y">>

\* JavaScript truthiness of x in (x || y) and (x && y)
Truthy(v) ==
    CASE v.t = "undefined" -> FALSE
      [] v.t = "null" -> FALSE
      [] v.t = "boolean" -> v.b
      [] v.t = "string" -> v.s # <<>>
      [] v.t = "number" -> ~(v.k = "NaN" \/ (v.k = "finite" /\ v.n = 0))

\* row.col of a record object: undefined when the property is absent
Field(row, col) == IF col \in DOMAIN row THEN row[col] ELSE Undef

----------------------------------------------------------------------------
(* parseInt and parseFloat, as the wide variant's coercion uses them *)

RECURSIVE PrefixLen(_, _)
PrefixLen(s, set) ==
    IF s # <<>> /\ Head(s) \in set THEN 1 + PrefixLen(Tail(s), set) ELSE 0

Drop(s, k) == SubSeq(s, k + 1, Len(s))
Take(s, k) == SubSeq(s, 1, k)

HexDigit == Digit \cup {"a","b","c","d","e","f","A","B","C","D","E","F"}

HexVal(c) ==
    CASE c \in Digit -> DigitVal(c)
      [] c \in {"a", "A"} -> 10 [] c \in {"b", "B"} -> 11
      [] c \in {"c", "C"} -> 12 [] c \in {"d", "D"} -> 13
      [] c \in {"e", "E"} -> 14 [] c \in {"f", "F"} -> 15

RECURSIVE DigitsVal(_, _)
DigitsVal(s, radix) ==
    IF s = <<>> THEN 0
    ELSE DigitsVal(Take(s, Len(s) - 1), radix) * radix + HexVal(s[Len(s)])

RECURSIVE Normalize(_, _)
Normalize(n, e) ==
    IF e > 0 /\ n % 10 = 0 THEN Normalize(n \div 10, e - 1) ELSE Fin(n, e)

SignOf(s) == IF s # <<>> /\ Head(s) = "-" THEN -1 ELSE 1
Unsigned(s) == IF s # <<>> /\ Head(s) \in {"+", "-"} THEN Tail(s) ELSE s

\* parseInt(string) with no radix argument
ParseIntStr(str) ==
    LET s1 == TrimLeft(str)
        s2 == Unsigned(s1)
        hex == Len(s2) >= 2 /\ s2[1] = "0" /\ s2[2] \in {"x", "X"}
        s3 == IF hex THEN Drop(s2, 2) ELSE s2
        radix == IF hex THEN 16 ELSE 10
        k == PrefixLen(s3, IF hex THEN HexDigit ELSE Digit)
    IN  IF k = 0 THEN NaN ELSE Num(SignOf(s1) * DigitsVal(Take(s3, k), radix))

\* parseFloat(string)
ParseFloatStr(str) ==
    LET s1 == TrimLeft(str)
        s2 == Unsigned(s1)
        inf == <<"I","n","f","i","n","i","t","y">>
        ip == PrefixLen(s2, Digit)
        afterInt == Drop(s2, ip)
        hasDot == afterInt # <<>> /\ Head(afterInt) = "."
        fp == IF hasDot THEN PrefixLen(Tail(afterInt), Digit) ELSE 0
        digits == Take(s2, ip) \o (IF hasDot THEN Take(Tail(afterInt), fp) ELSE <<>>)
        rest == IF hasDot THEN Drop(afterInt, 1 + fp) ELSE afterInt
        hasE == rest # <<>> /\ Head(rest) \in {"e", "E"}
        expStr == IF hasE THEN Tail(rest) ELSE <<>>
        ed == PrefixLen(Unsigned(expStr), Digit)
        x == IF ed = 0 THEN 0
             ELSE SignOf(expStr) * DigitsVal(Take(Unsigned(expStr), ed), 10)
        m == SignOf(s1) * DigitsVal(digits, 10)
    IN  IF Len(s2) >= 8 /\ Take(s2, 8) = inf THEN Infinity(SignOf(s1))
        ELSE IF ip = 0 /\ fp = 0 THEN NaN
        ELSE IF fp - x >= 0 THEN Normalize(m, fp - x)
        ELSE Fin(m * Pow10(x - fp), 0)

\* parseInt(value) / parseFloat(value): the argument is converted to a string
ParseInt(v) == ParseIntStr(JsToString(v))
ParseFloat(v) == ParseFloatStr(JsToString(v))

----------------------------------------------------------------------------
(* The values one chunk row binds, per variant *)

NarrowColumns == <<"code", "name", "address", "branch">>

\* src/unnamed/part_000:99-120
columns ==
    <<"code", "name", "address", "branch", "district", "state", "software",
      "mobile", "installationdate", "priorty", "directdealing", "rout", "amc",
      "amcamt", "accountcode", "address3", "lictype", "clients", "sp",
      "nature">>

\* (row.col || "").toString().trim()
Sanitize(v) == Str(Trim(JsToString(IF Truthy(v) THEN v ELSE Str(<<>>))))

\* the float branch with the integer parser: parseInt(value) || null
CoerceFloat_AsInteger(value) ==
    IF value.t = "number" THEN value
    ELSE IF value = Str(<<>>) THEN Null
    ELSE IF Truthy(ParseInt(value)) THEN ParseInt(value) ELSE Null

\* typeof value === "number" ? value
\*     : value === null || value === "" ? null : parseFloat(value) || null
CoerceFloat(value) ==
    IF value.t = "number" THEN value
    ELSE IF value = Str(<<>>) THEN Null
    ELSE IF Truthy(ParseFloat(value)) THEN ParseFloat(value) ELSE Null

\* the integer branch without its fallback: parseInt(value)
CoerceInteger_NoFallback(value) ==
    IF value.t = "number" THEN value
    ELSE IF value = Str(<<>>) THEN Null
    ELSE ParseInt(value)

\* typeof value === "number" ? value
\*     : value === null || value === "" ? null : parseInt(value) || null
CoerceInteger(value) ==
    IF value.t = "number" THEN value
    ELSE IF value = Str(<<>>) THEN Null
    ELSE IF Truthy(ParseInt(value)) THEN ParseInt(value) ELSE Null

\* value.toString().trim(), the empty string replaced by null
CoerceString(value) ==
    LET t == Str(Trim(JsToString(value)))
    IN  IF t = Str(<<>>) THEN Null ELSE t

\* the wide variant's per-column coercion of row[col]
CoerceWide(col, raw) ==
    LET value == IF raw = Undef THEN Null ELSE raw
    IN  IF value # Null /\ col = "installationdate" THEN value
        ELSE IF value # Null /\ col \in {"amcamt"} THEN CoerceFloat(value)
        ELSE IF value # Null /\ col \in {"priorty", "clients", "sp"}
            THEN CoerceInteger(value)
        ELSE IF value # Null THEN CoerceString(value)
        ELSE value

\* pg sends an undefined parameter as NULL
PgParam(v) == IF v = Undef THEN Null ELSE v

\* the column list of the variant's INSERT statement
ColumnsOf(v) == IF v = "wide" THEN columns ELSE NarrowColumns

\* what values.push(...) appends for one row of the chunk
RowValues(v, row) ==
    CASE v = "narrow" ->
            [j \in 1..4 |-> Sanitize(Field(row, NarrowColumns[j]))]
      [] v = "wide" ->
            [j \in 1..Len(columns) |-> CoerceWide(columns[j], Field(row, columns[j]))]
      [] v \in {"truncopt", "fixed"} ->
            [j \in 1..4 |-> Field(row, NarrowColumns[j])]

\* the const chunkSize of the variant
chunkSize(v) == IF v = "wide" THEN WideChunk ELSE NarrowChunk

RECURSIVE FlatValues(_, _)
\* the values array built by chunk.forEach
FlatValues(v, chunk) ==
    IF chunk = <<>> THEN <<>>
    ELSE RowValues(v, Head(chunk)) \o FlatValues(v, Tail(chunk))

\* the narrow variants' numbering with the base one row ahead:
\* base = (idx + 1) * 4
Placeholders_BaseAhead(v, chunk) ==
    IF v = "wide"
    THEN [i \in 1..Len(chunk) |->
            [j \in 1..Len(columns) |-> (i - 1) * Len(columns) + j]]
    ELSE [i \in 1..Len(chunk) |-> [j \in 1..4 |-> i * 4 + j]]

RECURSIVE CountedPlaceholders(_, _)
\* the wide variant's numbering of n rows: placeholderCounter goes up by one
\* with every column of every row
CountedPlaceholders(n, placeholderCounter) ==
    IF n = 0 THEN <<>>
    ELSE <<[j \in 1..Len(columns) |-> placeholderCounter + j - 1]>>
         \o CountedPlaceholders(n - 1, placeholderCounter + Len(columns))

\* the numbers of the placeholders $n of the statement, row by row: the wide
\* variant counts from let placeholderCounter = 1, the narrow variants compute
\* base = idx * 4 from the row's index in the chunk
Placeholders(v, chunk) ==
    IF v = "wide" THEN CountedPlaceholders(Len(chunk), 1)
    ELSE [i \in 1..Len(chunk) |-> [j \in 1..4 |-> (i - 1) * 4 + j]]

\* the rows the store receives from one INSERT: placeholder $n stands for
\* values[n - 1] (values[n] here, sequences starting at 1)
RowsOfValues(ph, values) ==
    [i \in 1..Len(ph) |-> [j \in 1..Len(ph[i]) |-> PgParam(values[ph[i][j]])]]

----------------------------------------------------------------------------
(* Configuration and request inputs *)

Variants == {"narrow", "wide", "truncopt", "fixed"}

\* the literal "rrc_clients": the default of DEFAULT_TABLE, and the table the
\* fixed variant names in its statements
RrcClients == <<"r","r","c","_","c","l","i","e","n","t","s">>

\* process.env.RRC_CLIENTS_TABLE || "rrc_clients", the variable being unset
DEFAULT_TABLE == RrcClients

Clients2024 == <<"c","l","i","e","n","t","s","_","2","0","2","4">>
Injection ==
    <<"c","l","i","e","n","t","s",";"," ","D","R","O","P"," ",
      "T","A","B","L","E"," ","x">>

\* the tables of the store
Tables == {RrcClients, Clients2024}

\* the character class [a-zA-Z0-9_]
IdentifierChars == Lower \cup Upper \cup Digit \cup {"_"}

\* the test without its anchors: /[a-zA-Z0-9_]+/.test(name)
isValidIdentifier_Unanchored(name) ==
    \E k \in 1..Len(name) : name[k] \in IdentifierChars

\* /^[a-zA-Z0-9_]+$/.test(name)
isValidIdentifier(name) ==
    /\ Len(name) >= 1
    /\ \A k \in 1..Len(name) : name[k] \in IdentifierChars

GoodKey == Str(<<"k","1">>)
BadKey == Str(<<"k","2">>)

Rec1 == [code |-> Str(<<"1">>), name |-> Str(<<" ","A"," ">>),
         address |-> Str(<<"X">>), branch |-> Str(<<"B">>)]
Rec2 == [code |-> Num(2), name |-> Str(<<"B">>), priorty |-> Str(<<"4","2">>),
         amcamt |-> Str(<<"3",".","1","4">>)]
Rec3 == [code |-> Str(<<"3">>), name |-> Str(<<>>), address |-> Null,
         priority |-> Num(1), route |-> Str(<<"N">>)]
Rec4 == [code |-> Str(<<"4">>), clients |-> Str(<<"0">>), sp |-> Num(0)]

\* record k of a snapshot
RecordAt(k) == CASE k = 1 -> Rec1 [] k = 2 -> Rec2 [] k = 3 -> Rec3 [] OTHER -> Rec4

Arr(a) == [t |-> "array", a |-> a]
Obj == [t |-> "object"]

\* the snapshots: the first n records, for every n up to MaxRecs
Arrays == {[k \in 1..n |-> RecordAt(k)] : n \in 0..MaxRecs}

NonArrays == {Undef, Null, Obj, Str(<<"a">>), Num(7)}

TableNameValues == {Undef, Str(Clients2024), Str(Injection)}

TruncateValues == {Undef, Bool(TRUE), Bool(FALSE)}

\* the snapshots of at most one record
ShortArrays == {a \in Arrays : Len(a) <= 1}

\* the request bodies.  Where an API key is configured: under that key, every
\* snapshot with every clear flag for one table name, and the short
\* snapshots with every other table name; under every key, every kind of
\* data with one table name.  Where none is configured: every kind of data
\* under every key.
Bodies(v, sec) ==
    [apiKey : {sec} \ {Undef},
     data : {Arr(a) : a \in Arrays},
     tableName : {Str(Clients2024)},
     truncateFirst : IF v = "truncopt" THEN TruncateValues ELSE {Undef}]
    \cup
    [apiKey : {sec} \ {Undef},
     data : {Arr(a) : a \in ShortArrays},
     tableName : TableNameValues,
     truncateFirst : {Undef}]
    \cup
    [apiKey : {Undef, GoodKey, BadKey},
     data : NonArrays \cup {Arr(a) : a \in Arrays},
     tableName : {Str(Clients2024)},
     truncateFirst : {Undef}]

\* a payload check that only rejects a missing value: if (!data)
IsArray_NotFalsy(d) == d.t \notin {"undefined", "null"}

\* Array.isArray(data)
IsArray(d) == d.t = "array"

\* apiKey !== process.env.API_KEY is false
Authenticated(b, sec) == b.apiKey = sec

\* const targetTable = tableName && isValidIdentifier(tableName) ? tableName
\*                                                               : DEFAULT_TABLE
ResolveTable(v, b) ==
    IF v = "fixed" THEN RrcClients
    ELSE IF Truthy(b.tableName) /\ isValidIdentifier(JsToString(b.tableName))
         THEN JsToString(b.tableName)
         ELSE DEFAULT_TABLE

\* the checks in the other order: the payload first, then the key
Verdict_PayloadFirst(b, sec) ==
    IF ~IsArray(b.data) THEN "400"
    ELSE IF ~Authenticated(b, sec) THEN "401"
    ELSE "sync"

\* which return the handler's checks reach
Verdict(b, sec) ==
    IF ~Authenticated(b, sec) THEN "401"
    ELSE IF ~IsArray(b.data) THEN "400"
    ELSE "sync"

\* the destructuring default: truncateFirst = false
TruncateFirst(b) ==
    IF b.truncateFirst = Undef THEN Bool(FALSE) ELSE b.truncateFirst

\* whether the handler issues a clear statement after BEGIN
Clears(v, b) == v # "truncopt" \/ Truthy(TruncateFirst(b))

ClearOp(v) == IF v \in {"narrow", "wide"} THEN "DELETE" ELSE "TRUNCATE"

----------------------------------------------------------------------------
(* State *)

NoBody == [apiKey |-> Undef, data |-> Undef, tableName |-> Undef,
           truncateFirst |-> Undef]
NoErr == "none"

Response(status, message, count) ==
    [status |-> status, message |-> message, insertedCount |-> count]

Stmt(op, t, values, ok) == [op |-> op, table |-> t, values |-> values, ok |-> ok]

\* a pool client and its session: tx is the session's transaction state, tbl
\* and mode the table lock it holds, del the rows (by inserting request) its
\* DELETE marked, trunc whether it truncated, ins the rows it inserted, snap
\* the rows a blocked DELETE saw when it started
FreshConn == [holder |-> 0, tx |-> "none", tbl |-> <<>>, mode |-> "none",
              del |-> {}, trunc |-> FALSE, snap |-> {}, ins |-> <<>>]

OldRow == [x |-> 0, row |-> <<Str(<<"0">>), Str(<<"Old">>), Null, Null>>]

\* the statement builder before it ran, with no chunk
NoBuild == [chunk |-> <<>>, built |-> FALSE, columns |-> <<>>,
            valuePlaceholders |-> <<>>, values |-> <<>>]

\* no request has arrived, every pool client is idle
Idle ==
    /\ pc = [r \in Reqs |-> "idle"]
    /\ body = [r \in Reqs |-> NoBody]
    /\ targetTable = [r \in Reqs |-> <<>>]
    /\ idx = [r \in Reqs |-> 0]
    /\ inserted = [r \in Reqs |-> 0]
    /\ err = [r \in Reqs |-> NoErr]
    /\ client = [r \in Reqs |-> 0]
    /\ resp = [r \in Reqs |-> <<>>]
    /\ log = [r \in Reqs |-> <<>>]
    /\ stage = [r \in Reqs |-> <<>>]
    /\ releases = [r \in Reqs |-> 0]
    /\ conn = [c \in Conns |-> FreshConn]
    /\ table = [t \in Tables |-> <<OldRow>>]
    /\ overlapped = FALSE

Init ==
    /\ variant \in Variants
    /\ secret \in {Undef, GoodKey}
    /\ Idle
    /\ build = NoBuild

----------------------------------------------------------------------------
(* The store: PostgreSQL sessions at READ COMMITTED *)

\* the sessions other than c's that have a transaction in progress
Others(c) == {d \in Conns \ {c} : conn[d].tx # "none"}

\* the committed rows of t, named by the request that inserted them
Visible(t) == {table[t][k].x : k \in 1..Len(table[t])}

\* a row of xs is marked deleted by another transaction in progress
RowLocked(c, t, xs) ==
    \E d \in Others(c) : conn[d].tbl = t /\ conn[d].del \cap xs # {}

\* another transaction holds TRUNCATE's ACCESS EXCLUSIVE lock on t
ExclLocked(c, t) == \E d \in Others(c) : conn[d].tbl = t /\ conn[d].mode = "excl"

\* another transaction holds any lock on t
AnyLocked(c, t) == \E d \in Others(c) : conn[d].tbl = t /\ conn[d].mode # "none"

\* a session after its transaction ended
Ended(s) == [FreshConn EXCEPT !.holder = s.holder]

\* a session after a statement of its transaction failed: the changes are
\* dead, the locks stay until ROLLBACK
Aborted(s) == [s EXCEPT !.tx = "aborted", !.ins = <<>>, !.snap = {}]

\* the committed rows of the session's table after its COMMIT
Committed(s, rows) ==
    IF s.trunc THEN s.ins
    ELSE SelectSeq(rows, LAMBDA e : e.x \notin s.del) \o s.ins

----------------------------------------------------------------------------
(* The handler of POST /api/sync *)

Data(r) == body[r].data.a

\* the end of data.slice(i, i + chunkSize) in an array of n elements
SliceEnd(n, i, c) == Min(i + c, n)

\* a slice that stops one element early: data.slice(i, i + chunkSize - 1)
Chunk_OneShort(data, i, c) == SubSeq(data, i + 1, Min(i + c - 1, Len(data)))

\* the chunk data.slice(i, i + chunkSize)
Chunk(data, i, c) == SubSeq(data, i + 1, SliceEnd(Len(data), i, c))

RECURSIVE ChunkLengths(_, _, _)
\* the chunk lengths of for (let i = 0; i < n; i += c), from index i on
ChunkLengths(n, i, c) ==
    IF i < n THEN <<SliceEnd(n, i, c) - i>> \o ChunkLengths(n, i + c, c)
    ELSE <<>>

\* the batch loop skipped: COMMIT follows the clear step at once
AfterClear_CommitEarly(r) == "COMMIT"

\* the await the handler reaches once the clear step is over
AfterClear(r) == IF 0 < Len(Data(r)) THEN "insert" ELSE "COMMIT"

\* the await the handler reaches once BEGIN succeeded
AfterBegin(r) == IF Clears(variant, body[r]) THEN "clear" ELSE AfterClear(r)

\* the response of the framework to an error the handler did not catch
GenericError ==
    IF variant \in {"narrow", "wide"}
    THEN Response(500, "Internal server error", -1)
    ELSE Response(500, "Internal Server Error", -1)

\* the async handler's promise rejects and nothing in the handler has
\* responded: a framework that does not watch the promise leaves the request
\* unanswered, one that forwards the rejection answers with its error handler
Rejected(r) == {resp[r], Append(resp[r], GenericError)}

\* the request arrives; the handler runs up to its first await
Receive(r) ==
    /\ pc[r] = "idle"
    /\ \A q \in Reqs : q < r => pc[q] # "idle"
    /\ \E b \in Bodies(variant, secret) :
        /\ body' = [body EXCEPT ![r] = b]
        /\ IF Verdict(b, secret) = "401" THEN
                /\ stage' = [stage EXCEPT ![r] = <<"auth">>]
                /\ resp' = [resp EXCEPT ![r] =
                        <<Response(401, "Invalid API key", -1)>>]
                /\ pc' = [pc EXCEPT ![r] = "done"]
                /\ UNCHANGED targetTable
           ELSE IF Verdict(b, secret) = "400" THEN
                /\ stage' = [stage EXCEPT ![r] = <<"auth", "validate">>]
                /\ resp' = [resp EXCEPT ![r] =
                        <<Response(400, "Invalid data format", -1)>>]
                /\ pc' = [pc EXCEPT ![r] = "done"]
                /\ UNCHANGED targetTable
           ELSE
                /\ stage' = [stage EXCEPT ![r] =
                        <<"auth", "validate", "resolve", "connect">>]
                /\ targetTable' = [targetTable EXCEPT ![r] =
                        ResolveTable(variant, b)]
                /\ pc' = [pc EXCEPT ![r] = "connect"]
                /\ UNCHANGED resp
    /\ UNCHANGED <<cfgVars, build, overlapped, idx, inserted, err, client, log,
                   releases, conn, table>>

\* pool.connect() resolves with an idle client; the handler issues BEGIN
ConnectOk(r) ==
    /\ pc[r] = "connect"
    /\ \E c \in Conns :
        /\ conn[c].holder = 0
        /\ \A d \in Conns : d < c => conn[d] # conn[c]
        /\ conn' = [conn EXCEPT ![c].holder = r]
        /\ client' = [client EXCEPT ![r] = c]
    /\ pc' = [pc EXCEPT ![r] = "BEGIN"]
    /\ UNCHANGED <<cfgVars, build, overlapped, body, targetTable, idx,
                   inserted, err, resp, log, stage, releases, table>>

\* pool.connect() rejects (no client within the timeout, store unreachable):
\* the rejection is outside the try block
ConnectFail(r) ==
    /\ pc[r] = "connect"
    /\ \E q \in Rejected(r) : resp' = [resp EXCEPT ![r] = q]
    /\ err' = [err EXCEPT ![r] = "connect failed"]
    /\ pc' = [pc EXCEPT ![r] = "done"]
    /\ UNCHANGED <<cfgVars, build, overlapped, body, targetTable, idx,
                   inserted, client, log, stage, releases, conn, table>>

\* a statement failed: the catch block issues ROLLBACK
Catch(r, op, t, values, message) ==
    /\ log' = [log EXCEPT ![r] = Append(@, Stmt(op, t, values, FALSE))]
    /\ err' = [err EXCEPT ![r] = message]
    /\ pc' = [pc EXCEPT ![r] = "ROLLBACK"]

BeginOk(r) ==
    /\ pc[r] = "BEGIN"
    /\ conn[client[r]].tx = "none"
    /\ conn' = [conn EXCEPT ![client[r]].tx = "open"]
    /\ log' = [log EXCEPT ![r] = Append(@, Stmt("BEGIN", <<>>, <<>>, TRUE))]
    /\ pc' = [pc EXCEPT ![r] = AfterBegin(r)]
    /\ UNCHANGED <<cfgVars, build, overlapped, body, targetTable, idx,
                   inserted, err, client, resp, stage, releases, table>>

\* BEGIN fails: always so in a session whose earlier transaction is aborted
BeginFail(r) ==
    /\ pc[r] = "BEGIN"
    /\ Catch(r, "BEGIN", <<>>, <<>>, "BEGIN failed")
    /\ UNCHANGED <<cfgVars, build, overlapped, body, targetTable, idx,
                   inserted, client, resp, stage, releases, conn, table>>

\* the clear statement succeeds at once
ClearOk(r) ==
    LET c == client[r]
        t == targetTable[r]
        op == ClearOp(variant)
    IN  /\ pc[r] = "clear"
        /\ t \in Tables
        /\ IF op = "DELETE"
           THEN /\ ~ExclLocked(c, t)
                /\ ~RowLocked(c, t, Visible(t))
                /\ conn' = [conn EXCEPT ![c].tbl = t, ![c].mode = "row",
                                        ![c].del = Visible(t)]
           ELSE /\ ~AnyLocked(c, t)
                /\ conn' = [conn EXCEPT ![c].tbl = t, ![c].mode = "excl",
                                        ![c].trunc = TRUE]
        /\ log' = [log EXCEPT ![r] = Append(@, Stmt(op, t, <<>>, TRUE))]
        /\ pc' = [pc EXCEPT ![r] = AfterClear(r)]
        /\ UNCHANGED <<cfgVars, build, overlapped, body, targetTable, idx,
                       inserted, err, client, resp, stage, releases, table>>

\* DELETE finds a row that another transaction in progress has deleted and
\* waits for that transaction to end
ClearBlock(r) ==
    LET c == client[r]
        t == targetTable[r]
    IN  /\ pc[r] = "clear"
        /\ ClearOp(variant) = "DELETE"
        /\ t \in Tables
        /\ ~ExclLocked(c, t)
        /\ RowLocked(c, t, Visible(t))
        /\ conn' = [conn EXCEPT ![c].tbl = t, ![c].mode = "row",
                                ![c].snap = Visible(t)]
        /\ pc' = [pc EXCEPT ![r] = "clearWait"]
        /\ UNCHANGED <<cfgVars, build, overlapped, body, targetTable, idx,
                       inserted, err, client, resp, log, stage, releases,
                       table>>

\* the transaction DELETE waited for has ended: DELETE removes the rows of
\* its snapshot that are still there
ClearResume(r) ==
    LET c == client[r]
        t == targetTable[r]
    IN  /\ pc[r] = "clearWait"
        /\ ~RowLocked(c, t, conn[c].snap)
        /\ conn' = [conn EXCEPT ![c].del = conn[c].snap \cap Visible(t),
                                ![c].snap = {}]
        /\ log' = [log EXCEPT ![r] = Append(@, Stmt("DELETE", t, <<>>, TRUE))]
        /\ pc' = [pc EXCEPT ![r] = AfterClear(r)]
        /\ UNCHANGED <<cfgVars, build, overlapped, body, targetTable, idx,
                       inserted, err, client, resp, stage, releases, table>>

ClearFail(r) ==
    /\ pc[r] \in {"clear", "clearWait"}
    /\ conn' = [conn EXCEPT ![client[r]] = Aborted(@)]
    /\ Catch(r, ClearOp(variant), targetTable[r], <<>>, "clear failed")
    /\ UNCHANGED <<cfgVars, build, overlapped, body, targetTable, idx,
                   inserted, client, resp, stage, releases, table>>

\* one iteration of the batch loop: the chunk's INSERT succeeds
InsertOk(r) ==
    LET c == client[r]
        t == targetTable[r]
        chunk == Chunk(Data(r), idx[r], chunkSize(variant))
        values == FlatValues(variant, chunk)
        rows == RowsOfValues(Placeholders(variant, chunk), values)
    IN  /\ pc[r] = "insert"
        /\ t \in Tables
        /\ ~ExclLocked(c, t)
        /\ conn' = [conn EXCEPT
                ![c].tbl = t,
                ![c].mode = IF @ = "none" THEN "row" ELSE @,
                ![c].ins = @ \o [k \in 1..Len(rows) |-> [x |-> r, row |-> rows[k]]]]
        /\ log' = [log EXCEPT ![r] = Append(@, Stmt("INSERT", t, values, TRUE))]
        /\ inserted' = [inserted EXCEPT ![r] = @ + Len(chunk)]
        /\ idx' = [idx EXCEPT ![r] = @ + chunkSize(variant)]
        /\ pc' = [pc EXCEPT ![r] =
                IF idx'[r] < Len(Data(r)) THEN "insert" ELSE "COMMIT"]
        /\ UNCHANGED <<cfgVars, build, overlapped, body, targetTable, err,
                       client, resp, stage, releases, table>>

\* the chunk's INSERT fails (a constraint, a type, the connection)
InsertFail(r) ==
    LET chunk == Chunk(Data(r), idx[r], chunkSize(variant))
    IN  /\ pc[r] = "insert"
        /\ conn' = [conn EXCEPT ![client[r]] = Aborted(@)]
        /\ Catch(r, "INSERT", targetTable[r], FlatValues(variant, chunk),
                 "INSERT failed")
        /\ UNCHANGED <<cfgVars, build, overlapped, body, targetTable, idx,
                       inserted, client, resp, stage, releases, table>>

\* another request is between its BEGIN and its COMMIT, for the same table
Overlaps(r) ==
    \E q \in Reqs \ {r} :
        /\ client[q] # 0
        /\ conn[client[q]].tx = "open"
        /\ targetTable[q] = targetTable[r]

\* COMMIT succeeds; the handler responds 200 and the finally block releases
CommitOk(r) ==
    LET c == client[r]
        s == conn[c]
    IN  /\ pc[r] = "COMMIT"
        /\ table' = IF s.tbl = <<>> THEN table
                    ELSE [table EXCEPT ![s.tbl] = Committed(s, @)]
        /\ conn' = [conn EXCEPT ![c] = [Ended(s) EXCEPT !.holder = 0]]
        /\ log' = [log EXCEPT ![r] = Append(@, Stmt("COMMIT", <<>>, <<>>, TRUE))]
        /\ resp' = [resp EXCEPT ![r] = Append(@, Response(200, "", inserted[r]))]
        /\ releases' = [releases EXCEPT ![r] = @ + 1]
        /\ client' = [client EXCEPT ![r] = 0]
        /\ pc' = [pc EXCEPT ![r] = "done"]
        /\ overlapped' = (overlapped \/ Overlaps(r))
        /\ UNCHANGED <<cfgVars, build, body, targetTable, idx, inserted, err,
                       stage>>

\* COMMIT fails: the store reports an error and has ended the transaction
\* without applying it (a COMMIT that reports an error has committed nothing)
CommitFail(r) ==
    /\ pc[r] = "COMMIT"
    /\ conn' = [conn EXCEPT ![client[r]] = Ended(@)]
    /\ Catch(r, "COMMIT", <<>>, <<>>, "COMMIT failed")
    /\ UNCHANGED <<cfgVars, build, overlapped, body, targetTable, idx,
                   inserted, client, resp, stage, releases, table>>

\* ROLLBACK succeeds; the handler responds 500 with err.message and the
\* finally block releases
RollbackOk(r) ==
    LET c == client[r]
    IN  /\ pc[r] = "ROLLBACK"
        /\ conn' = [conn EXCEPT ![c] = [Ended(@) EXCEPT !.holder = 0]]
        /\ log' = [log EXCEPT ![r] = Append(@, Stmt("ROLLBACK", <<>>, <<>>, TRUE))]
        /\ resp' = [resp EXCEPT ![r] = Append(@, Response(500, err[r], -1))]
        /\ releases' = [releases EXCEPT ![r] = @ + 1]
        /\ client' = [client EXCEPT ![r] = 0]
        /\ pc' = [pc EXCEPT ![r] = "done"]
        /\ UNCHANGED <<cfgVars, build, overlapped, body, targetTable, idx,
                       inserted, err, stage, table>>

\* ROLLBACK fails and release() is not in a finally block: the throw skips it
RollbackFail_NoRelease(r) ==
    /\ pc[r] = "ROLLBACK"
    /\ log' = [log EXCEPT ![r] = Append(@, Stmt("ROLLBACK", <<>>, <<>>, FALSE))]
    /\ \E q \in Rejected(r) : resp' = [resp EXCEPT ![r] = q]
    /\ pc' = [pc EXCEPT ![r] = "done"]
    /\ UNCHANGED <<cfgVars, build, overlapped, body, targetTable, idx,
                   inserted, err, stage, client, releases, conn, table>>

\* ROLLBACK fails: the catch block throws, the finally block releases, the
\* handler's promise rejects.  The client goes back to the pool with what
\* its session has in progress.
RollbackFail(r) ==
    LET c == client[r]
    IN  /\ pc[r] = "ROLLBACK"
        /\ conn' = [conn EXCEPT ![c].holder = 0]
        /\ log' = [log EXCEPT ![r] = Append(@, Stmt("ROLLBACK", <<>>, <<>>, FALSE))]
        /\ \E q \in Rejected(r) : resp' = [resp EXCEPT ![r] = q]
        /\ releases' = [releases EXCEPT ![r] = @ + 1]
        /\ client' = [client EXCEPT ![r] = 0]
        /\ pc' = [pc EXCEPT ![r] = "done"]
        /\ UNCHANGED <<cfgVars, build, overlapped, body, targetTable, idx,
                       inserted, err, stage, table>>

\* the pool closes a client that sat idle for idleTimeoutMillis; the store
\* ends what its session had in progress
IdleTimeout(c) ==
    /\ conn[c].holder = 0
    /\ conn[c].tx # "none"
    /\ conn' = [conn EXCEPT ![c] = FreshConn]
    /\ UNCHANGED <<cfgVars, build, overlapped, reqVars, table>>

Next ==
    \/ \E r \in Reqs :
        \/ Receive(r)
        \/ ConnectOk(r)
        \/ ConnectFail(r)
        \/ BeginOk(r)
        \/ BeginFail(r)
        \/ ClearOk(r)
        \/ ClearBlock(r)
        \/ ClearResume(r)
        \/ ClearFail(r)
        \/ InsertOk(r)
        \/ InsertFail(r)
        \/ CommitOk(r)
        \/ CommitFail(r)
        \/ RollbackOk(r)
        \/ RollbackFail(r)
    \/ \E c \in Conns : IdleTimeout(c)

Spec == Init /\ [][Next]_vars

----------------------------------------------------------------------------
(* The statement builder on its own: the body of the batch loop from the  *)
(* chunk to the arguments of client.query(sql, values), for chunks of     *)
(* records chosen field by field                                           *)

\* the longest chunk of whole records given to the builder
MaxBuildRows == 2

\* the field values of the records: missing, null, strings, numbers, booleans
BuildScalars ==
    {Undef, Null, Str(<<>>), Str(<<" ", " ">>), Str(<<"4","2">>),
     Str(<<"0">>), Str(<<"-","5">>), Str(<<" ","7"," ">>),
     Str(<<"3",".","1","4">>), Str(<<"1","2","a","b","c">>),
     Str(<<"a","b","c">>), Str(<<" "," ","A","c","m","e"," "," ">>),
     Str(<<"0","x","1","A">>), Str(<<"1","e","2">>),
     Num(0), Num(42), Fin(314, 2), Bool(TRUE), Bool(FALSE)}

\* the field names of the records: columns of every class, and the names
\* priority and route next to priorty and rout
BuildFields ==
    {"code", "name", "installationdate", "amcamt", "priorty", "priority",
     "clients", "sp", "rout", "route"}

\* a record with a field of every class
Rec5 == [name |-> Str(<<" "," ","A","c","m","e"," "," ">>),
         clients |-> Str(<<"4","2">>), sp |-> Str(<<>>),
         amcamt |-> Str(<<"3",".","1","4">>)]

\* a record with one field
OneField(c, v) == [x \in {c} |-> v]

\* the chunks: one record with one field, for every field and value, one
\* record with a field of every class, and every sequence of up to
\* MaxBuildRows whole records
BuildChunks ==
    {<<OneField(c, v)>> : c \in BuildFields, v \in BuildScalars}
    \cup {<<Rec5>>}
    \cup UNION {[1..n -> {RecordAt(k) : k \in 1..4}] : n \in 0..MaxBuildRows}

BuildInit ==
    /\ variant \in Variants
    /\ secret = GoodKey
    /\ Idle
    /\ build \in {[NoBuild EXCEPT !.chunk = ch] : ch \in BuildChunks}

\* one pass of the loop body: chunk.forEach fills valuePlaceholders and
\* values, the template names the columns
BuildInsert ==
    /\ ~build.built
    /\ build' = [build EXCEPT
            !.built = TRUE,
            !.columns = ColumnsOf(variant),
            !.valuePlaceholders = Placeholders(variant, build.chunk),
            !.values = FlatValues(variant, build.chunk)]
    /\ UNCHANGED <<cfgVars, reqVars, conn, table, overlapped>>

BuildNext == BuildInsert

BuildSpec == BuildInit /\ [][BuildNext]_vars

----------------------------------------------------------------------------
(* Properties *)

Arrived(r) == pc[r] # "idle"
Done(r) == pc[r] = "done"

\* the request was answered once, with this status
Answered(r, status) == Len(resp[r]) = 1 /\ resp[r][1].status = status

\* the request never had a pool client and issued no statement
NoStoreAccess(r) == client[r] = 0 /\ log[r] = <<>> /\ releases[r] = 0

\* C1: every request whose apiKey is wrong or missing, also when it is absent
\* and no API key is configured, is answered 401 "Invalid API key", acquires
\* no pool client and issues no statement.
C1_MissingOrWrongKeyIs401 ==
    \A r \in Reqs :
        (Arrived(r) /\ (body[r].apiKey = Undef \/ body[r].apiKey # secret)) =>
            /\ Done(r)
            /\ resp[r] = <<Response(401, "Invalid API key", -1)>>
            /\ NoStoreAccess(r)

\* C8: every authenticated request whose data is not an array is answered 400
\* "Invalid data format", acquires no pool client and opens no transaction.
C8_NonArrayIs400 ==
    \A r \in Reqs :
        (Arrived(r) /\ Authenticated(body[r], secret)
                    /\ body[r].data.t # "array") =>
            /\ Done(r)
            /\ resp[r] = <<Response(400, "Invalid data format", -1)>>
            /\ NoStoreAccess(r)
            /\ \A c \in Conns : conn[c].holder # r

C8_Witness ==
    \E r \in Reqs :
        /\ Authenticated(body[r], secret)
        /\ body[r].data = Obj
        /\ Answered(r, 400)

\* C9: a request whose apiKey differs from the configured key is answered 401
\* whatever its data is, and enters neither the payload validation, nor the
\* table name resolution, nor the connection acquisition.
C9_AuthBeforePayload ==
    \A r \in Reqs :
        (Arrived(r) /\ body[r].apiKey # secret) =>
            /\ Done(r)
            /\ resp[r] = <<Response(401, "Invalid API key", -1)>>
            /\ stage[r] = <<"auth">>
            /\ targetTable[r] = <<>>
            /\ NoStoreAccess(r)

C9_Witness ==
    \E r \in Reqs :
        /\ body[r].apiKey = BadKey
        /\ secret = GoodKey
        /\ body[r].data = Str(<<"a">>)
        /\ Answered(r, 401)

\* the rows of a committed table
StoredRows(t) == [k \in 1..Len(table[t]) |-> table[t][k].row]

\* the rows the request's snapshot binds
SnapshotRows(r) ==
    RowsOfValues(Placeholders(variant, Data(r)), FlatValues(variant, Data(r)))

\* C2: whenever a request is answered 200, the target table holds exactly
\* the rows of the request's snapshot, in every variant and for every value
\* of truncateFirst.
C2_SyncReplacesTable ==
    [][\A r \in Reqs :
        (pc[r] = "COMMIT" /\ pc'[r] = "done" /\ Answered(r, 200)') =>
            StoredRows(targetTable[r])' = SnapshotRows(r)]_vars

TableErrors == {"clear failed", "INSERT failed", "COMMIT failed"}

\* request q committed into table t
CommittedInto(q, t) == Done(q) /\ err[q] = NoErr /\ targetTable[q] = t

\* nothing of request r is in the committed tables: no row it inserted, and
\* a table no other request committed into holds what it held at the start
LeftNoTrace(r) ==
    \A t \in Tables :
        /\ r \notin Visible(t)
        /\ (\A q \in Reqs \ {r} : ~CommittedInto(q, t)) => table[t] = <<OldRow>>

\* C3: a request whose clear, insert or COMMIT failed leaves the table as it
\* was and is answered 500.
C3_FailureRollsBackAnd500 ==
    \A r \in Reqs :
        (Done(r) /\ err[r] \in TableErrors) => LeftNoTrace(r) /\ Answered(r, 500)

\* the part of C3 about the table alone
C3_FailureRollsBack ==
    \A r \in Reqs : (Done(r) /\ err[r] \in TableErrors) => LeftNoTrace(r)

\* request r has acquired a pool client (BEGIN is issued at once and its
\* outcome is logged)
Acquired(r) == client[r] # 0 \/ log[r] # <<>>

CheckedOut == {c \in Conns : conn[c].holder # 0}

\* C4: a request that acquired a pool client releases it exactly once on
\* every exit path; a client is checked out by the request that holds it and
\* by no other; with no request in flight no client is checked out.
C4_ReleasedExactlyOnce ==
    /\ \A r \in Reqs :
        /\ releases[r] = IF Done(r) /\ Acquired(r) THEN 1 ELSE 0
        /\ Done(r) => client[r] = 0
        /\ \A c \in Conns : conn[c].holder = r <=> client[r] = c
    /\ (\A r \in Reqs : pc[r] \in {"idle", "done"}) => CheckedOut = {}
    /\ Cardinality(CheckedOut) <= Cardinality(Conns)

C4_Witness ==
    /\ \A r \in Reqs : Done(r) /\ releases[r] = 1
    /\ \E r \in Reqs : log[r][Len(log[r])] = Stmt("ROLLBACK", <<>>, <<>>, FALSE)
    /\ \E r \in Reqs : log[r][Len(log[r])] = Stmt("COMMIT", <<>>, <<>>, TRUE)

\* C5: a request whose pool.connect() failed is answered 500.
C5_ConnectFailureIs500 ==
    \A r \in Reqs : (Done(r) /\ err[r] = "connect failed") => Answered(r, 500)

\* C6: a request with a failed statement in its transaction has issued
\* ROLLBACK and is answered exactly once, 500 with the error's message, also
\* when ROLLBACK failed.
C6_RollbackThen500 ==
    \A r \in Reqs :
        (Done(r) /\ err[r] \in TableErrors \cup {"BEGIN failed"}) =>
            /\ log[r][Len(log[r])].op = "ROLLBACK"
            /\ resp[r] = <<Response(500, err[r], -1)>>

\* the statements of a request that name a table
TableStmts(r) ==
    SelectSeq(log[r], LAMBDA q : q.op \in {"DELETE", "TRUNCATE", "INSERT"})

\* ASCII letters, digits and the underscore
C7_Letters ==
    {"a","b","c","d","e","f","g","h","i","j","k","l","m","n","o","p","q","r",
     "s","t","u","v","w","x","y","z","A","B","C","D","E","F","G","H","I","J",
     "K","L","M","N","O","P","Q","R","S","T","U","V","W","X","Y","Z","0","1",
     "2","3","4","5","6","7","8","9","_"}

\* the allow-list as the claim states it
C7_Allowed(name) ==
    /\ name # <<>>
    /\ \A k \in 1..Len(name) : name[k] \in C7_Letters

\* the table the claim names for a request body
C7_Table(b) ==
    IF b.tableName.t = "string" /\ C7_Allowed(b.tableName.s)
    THEN b.tableName.s ELSE DEFAULT_TABLE

\* C7: every statement of every request names the caller's tableName when it
\* passes the allow-list and the default table otherwise.
C7_EveryRequestUsesItsTable ==
    \A r \in Reqs : \A k \in 1..Len(TableStmts(r)) :
        TableStmts(r)[k].table = C7_Table(body[r])

\* C7 amended: that holds in the variants that read tableName; the fixed
\* variant names rrc_clients whatever the body holds; no statement names a
\* table that fails the allow-list.
C7_ReadersUseTheirTable ==
    \A r \in Reqs :
        LET named == IF variant = "fixed" THEN RrcClients ELSE C7_Table(body[r])
        IN  /\ C7_Allowed(named)
            /\ \A k \in 1..Len(log[r]) :
                    log[r][k].op \in {"DELETE", "TRUNCATE", "INSERT"} =>
                        log[r][k].table = named

C7_Witness ==
    \E r, q \in Reqs :
        /\ variant # "fixed"
        /\ body[r].tableName = Str(Injection)
        /\ body[q].tableName = Str(Clients2024)
        /\ Len(TableStmts(r)) >= 2 /\ TableStmts(r)[2].table = DEFAULT_TABLE
        /\ Len(TableStmts(q)) >= 2 /\ TableStmts(q)[2].table = Clients2024

\* the INSERT statements of a request
Inserts(r) == SelectSeq(log[r], LAMBDA q : q.op = "INSERT")

RECURSIVE ConcatValues(_)
ConcatValues(stmts) ==
    IF stmts = <<>> THEN <<>> ELSE Head(stmts).values \o ConcatValues(Tail(stmts))

C12_Length(r) ==
    LET c == chunkSize(variant)
    IN  2 + (IF Clears(variant, body[r]) THEN 1 ELSE 0)
          + ((Len(Data(r)) + c - 1) \div c)

\* statement number k of a sync that succeeds, in the order the claim gives:
\* BEGIN, the clear statement when one is issued, one INSERT per chunk in
\* input order, COMMIT
C12_Expected(r, k) ==
    LET c == chunkSize(variant)
        n == Len(Data(r))
        t == targetTable[r]
        first == IF Clears(variant, body[r]) THEN 3 ELSE 2
        j == k - first
    IN  IF k = 1 THEN Stmt("BEGIN", <<>>, <<>>, TRUE)
        ELSE IF k < first THEN Stmt(ClearOp(variant), t, <<>>, TRUE)
        ELSE IF k < C12_Length(r)
        THEN Stmt("INSERT", t,
                  FlatValues(variant,
                             SubSeq(Data(r), j * c + 1, Min((j + 1) * c, n))),
                  TRUE)
        ELSE Stmt("COMMIT", <<>>, <<>>, TRUE)

\* the request has been answered 200
C12_Answered200(r) == \E k \in 1..Len(resp[r]) : resp[r][k].status = 200

\* C12: every statement a request issues is the next of BEGIN, the clear
\* statement when one is issued, the chunks' INSERTs in input order, and
\* COMMIT, and is issued only after the one before it succeeded; after a
\* failed one only ROLLBACK follows; 200 is sent in the step in which the
\* last of them, COMMIT, succeeded, and no statement follows it.
C12_StatementOrder ==
    [][\A r \in Reqs :
        LET k == Len(log'[r])
            st == log'[r][k]
        IN  /\ k \in {Len(log[r]), Len(log[r]) + 1}
            /\ k = Len(log[r]) + 1 =>
                /\ SubSeq(log'[r], 1, k - 1) = log[r]
                /\ IF k > 1 /\ ~log[r][k - 1].ok
                   THEN st.op = "ROLLBACK"
                   ELSE /\ k > 1 => log[r][k - 1].op # "ROLLBACK"
                        /\ k <= C12_Length(r)
                        /\ [st EXCEPT !.ok = TRUE] = C12_Expected(r, k)
            /\ (C12_Answered200(r)' /\ ~C12_Answered200(r)) =>
                /\ k = Len(log[r]) + 1
                /\ k = C12_Length(r)
                /\ st = Stmt("COMMIT", <<>>, <<>>, TRUE)
                /\ resp'[r] = <<Response(200, "", Len(Data(r)))>>
                /\ Done(r)' /\ client'[r] = 0
                /\ \A c \in Conns : conn'[c].holder # r
            /\ C12_Answered200(r) => (log'[r] = log[r] /\ resp'[r] = resp[r])
      ]_vars

C12_Witness ==
    \E r \in Reqs :
        /\ Answered(r, 200)
        /\ Clears(variant, body[r])
        /\ Len(Data(r)) = MaxRecs
        /\ Len(log[r]) = 3 + Len(Inserts(r))
        /\ Len(Inserts(r)) >= 2

\* C13 over every variant: when two syncs of one table overlapped between
\* BEGIN and COMMIT and both have committed, the table holds exactly the rows
\* of one of the two snapshots.
C13_OneSnapshotSurvives ==
    \A r, q \in Reqs :
        (/\ r # q /\ overlapped
         /\ Done(r) /\ Answered(r, 200)
         /\ Done(q) /\ Answered(q, 200)
         /\ targetTable[r] = targetTable[q]) =>
            StoredRows(targetTable[r]) \in {SnapshotRows(r), SnapshotRows(q)}

\* C13: when two syncs of one table that cleared it with DELETE (server.js
\* and the wide variant) overlapped between BEGIN and COMMIT and both have
\* committed, the table holds exactly the rows of one of the two snapshots,
\* never the union or a mixture of both.
C13_OneSnapshotAfterDelete ==
    \A r, q \in Reqs :
        (/\ r # q /\ overlapped
         /\ Done(r) /\ Answered(r, 200)
         /\ Done(q) /\ Answered(q, 200)
         /\ targetTable[r] = targetTable[q]
         /\ \A p \in {r, q} : \E k \in 1..Len(log[p]) : log[p][k].op = "DELETE") =>
            StoredRows(targetTable[r]) \in {SnapshotRows(r), SnapshotRows(q)}

\* the same where both requests cleared the table with TRUNCATE
C13_OneSnapshotAfterTruncate ==
    \A r, q \in Reqs :
        (/\ r # q /\ overlapped
         /\ Done(r) /\ Answered(r, 200)
         /\ Done(q) /\ Answered(q, 200)
         /\ targetTable[r] = targetTable[q]
         /\ \A p \in {r, q} : \E k \in 1..Len(log[p]) : log[p][k].op = "TRUNCATE") =>
            StoredRows(targetTable[r]) \in {SnapshotRows(r), SnapshotRows(q)}

\* the pool's idle clients
InPool == {c \in Conns : conn[c].holder = 0}

\* C14: every client in the pool has no transaction in progress, whatever
\* exit path returned it, a failed COMMIT and a failed ROLLBACK included.
C14_ReleasedWithoutTransaction ==
    \A c \in InPool : conn[c].tx = "none"

\* the part of C14 about the exit paths on which ROLLBACK or COMMIT succeeded
\* or COMMIT failed
C14_ReleasedAfterEnd ==
    \A r \in Reqs :
        (Done(r) /\ releases[r] = 1
                 /\ log[r][Len(log[r])] # Stmt("ROLLBACK", <<>>, <<>>, FALSE)) =>
            \A c \in InPool :
                conn[c].tx # "none" =>
                    \E q \in Reqs \ {r} :
                        /\ Done(q)
                        /\ log[q][Len(log[q])] = Stmt("ROLLBACK", <<>>, <<>>, FALSE)

----------------------------------------------------------------------------
(* Properties of the statement builder *)

\* the position of a column in the statement's column list
ColumnIndex(col) ==
    CHOOSE j \in 1..Len(build.columns) : build.columns[j] = col

\* the value bound to the placeholder of row i, column j
BoundAt(i, j) == build.values[build.valuePlaceholders[i][j]]

\* what the store receives for column col of row i
StoredAs(i, col) == PgParam(BoundAt(i, ColumnIndex(col)))

IntegerClass == {"priorty", "clients", "sp"}
FloatClass == {"amcamt"}
DateClass == {"installationdate"}

\* the string-class columns of the statement
StringClass ==
    {build.columns[j] : j \in 1..Len(build.columns)}
        \ (IntegerClass \cup FloatClass \cup DateClass)

BuiltRows == IF build.built THEN 1..Len(build.chunk) ELSE {}

Acme == <<"A","c","m","e">>

\* C11: in the wide variant an integer-class field "42" is stored as the
\* integer 42 and "" as null, a float-class field "3.14" as 3.14, and a
\* string-class field "  Acme  " as "Acme".
C11_CoercionExamples ==
    variant = "wide" =>
        \A i \in BuiltRows :
            LET row == build.chunk[i]
            IN  /\ \A col \in IntegerClass :
                    /\ Field(row, col) = Str(<<"4","2">>) =>
                            StoredAs(i, col) = Num(42)
                    /\ Field(row, col) = Str(<<>>) => StoredAs(i, col) = Null
                /\ \A col \in FloatClass :
                    Field(row, col) = Str(<<"3",".","1","4">>) =>
                        StoredAs(i, col) = Fin(314, 2)
                /\ \A col \in StringClass :
                    Field(row, col) = Str(<<" ", " ">> \o Acme \o <<" ", " ">>) =>
                        StoredAs(i, col) = Str(Acme)

C11_Witness ==
    /\ variant = "wide" /\ build.built /\ build.chunk = <<Rec5>>
    /\ StoredAs(1, "clients") = Num(42)
    /\ StoredAs(1, "sp") = Null
    /\ StoredAs(1, "amcamt") = Fin(314, 2)
    /\ StoredAs(1, "name") = Str(Acme)

\* C15: the statement built for a chunk of r rows over k columns numbers its
\* placeholders 1..r*k, row by row, starting at 1 for the chunk, binds
\* exactly r*k values, and binds to placeholder (i*k + j + 1) the coerced
\* value of column j of row i (rows and columns counted from 0).
C15_OnePlaceholderPerValue ==
    build.built =>
        LET r == Len(build.chunk)
            k == Len(build.columns)
        IN  /\ Len(build.valuePlaceholders) = r
            /\ Len(build.values) = r * k
            /\ \A i \in 0..(r - 1) :
                /\ Len(build.valuePlaceholders[i + 1]) = k
                /\ \A j \in 0..(k - 1) :
                    /\ build.valuePlaceholders[i + 1][j + 1] = i * k + j + 1
                    /\ build.values[i * k + j + 1] =
                            RowValues(variant, build.chunk[i + 1])[j + 1]

C15_Witness ==
    /\ build.built
    /\ variant = "narrow"
    /\ build.chunk = <<Rec1, Rec2>>
    /\ build.valuePlaceholders = <<<<1, 2, 3, 4>>, <<5, 6, 7, 8>>>>
    /\ Len(build.values) = 8
    /\ build.values[6] = Str(<<"B">>)

\* the string form of a field value
C16_StringForm(raw) ==
    CASE raw.t = "string" -> raw.s
      [] raw.t = "boolean" ->
            IF raw.b THEN <<"t","r","u","e">> ELSE <<"f","a","l","s","e">>
      [] raw = Num(0) -> <<"0">>
      [] raw = Num(42) -> <<"4","2">>
      [] raw = Num(1) -> <<"1">>
      [] raw = Num(2) -> <<"2">>
      [] raw = Fin(314, 2) -> <<"3",".","1","4">>

\* the value the claim gives for a string-class column
C16_Trimmed(raw) ==
    IF raw \in {Undef, Null} THEN Null
    ELSE IF Trim(C16_StringForm(raw)) = <<>> THEN Null
    ELSE Str(Trim(C16_StringForm(raw)))

\* C16: in every variant the value stored for a string-class column is null
\* when the field is missing, null when its string form is empty after
\* trimming, and otherwise its string form trimmed.
C16_StringTrimmed ==
    \A i \in BuiltRows : \A col \in StringClass :
        StoredAs(i, col) = C16_Trimmed(Field(build.chunk[i], col))

\* the same in the wide variant alone
C16_StringTrimmedWide ==
    variant = "wide" => C16_StringTrimmed

\* the integers the claim's parse gives for the field values that are not
\* numbers, missing or empty: the leading integer of the string form, if any
C17_Parsed(raw) ==
    CASE raw = Str(<<"4","2">>) -> Num(42)
      [] raw = Str(<<"0">>) -> Num(0)
      [] raw = Str(<<"-","5">>) -> Num(-5)
      [] raw = Str(<<" ","7"," ">>) -> Num(7)
      [] raw = Str(<<"3",".","1","4">>) -> Num(3)
      [] raw = Str(<<"1","2","a","b","c">>) -> Num(12)
      [] raw = Str(<<"0","x","1","A">>) -> Num(26)
      [] raw = Str(<<"1","e","2">>) -> Num(1)
      [] OTHER -> NaN

\* the value the claim gives for an integer-class column
C17_IntegerOrNull(raw) ==
    IF raw.t = "number" THEN raw
    ELSE IF raw \in {Undef, Null, Str(<<>>)} THEN Null
    ELSE IF C17_Parsed(raw) \in {NaN, Num(0)} THEN Null
    ELSE C17_Parsed(raw)

\* C17: for the integer-class columns priorty, clients and sp a number is
\* bound unchanged, 0 included; a missing or empty value is bound as null;
\* any other value is bound as the integer it parses to, and as null when it
\* does not parse or parses to zero; every scalar has a bound value.
C17_IntegerOrNullBound ==
    variant = "wide" =>
        \A i \in BuiltRows : \A col \in IntegerClass :
            /\ BoundAt(i, ColumnIndex(col)) =
                    C17_IntegerOrNull(Field(build.chunk[i], col))
            /\ BoundAt(i, ColumnIndex(col)).t \in {"number", "null"}

C17_Witness ==
    /\ variant = "wide" /\ build.built /\ build.chunk = <<Rec4>>
    /\ BoundAt(1, ColumnIndex("clients")) = Null
    /\ BoundAt(1, ColumnIndex("sp")) = Num(0)

\* the 20 columns the spec lists
C18_Columns ==
    <<"code", "name", "address", "branch", "district", "state", "software",
      "mobile", "installationdate", "priority", "directdealing", "route",
      "amc", "amcamt", "accountcode", "address3", "lictype", "clients", "sp",
      "nature">>

\* C18: the wide variant's statement names the 20 columns the spec lists, in
\* that order, and stores a record's priority and route fields in the tenth
\* and twelfth column of its row.
C18_SpecColumnsStored ==
    (variant = "wide" /\ build.built) =>
        /\ build.columns = C18_Columns
        /\ \A i \in BuiltRows :
            LET row == build.chunk[i]
            IN  /\ Field(row, "priority") = Num(1) =>
                        PgParam(BoundAt(i, 10)) = Num(1)
                /\ Field(row, "route") = Str(<<"N">>) =>
                        PgParam(BoundAt(i, 12)) = Str(<<"N">>)

\* the part of C18 about the number and the order of the values alone
C18_TwentyColumns ==
    (variant = "wide" /\ build.built) =>
        /\ Len(build.columns) = Len(C18_Columns)
        /\ \A j \in 1..Len(build.columns) :
            build.columns[j] # C18_Columns[j] => j \in {10, 12}

====
